---- MODULE Spec2Model ----
(***************************************************************************)
(* Model of instant's build_module (src/instant/build.py): the content-    *)
(* addressed build cache with concurrent promotion.  Several processes     *)
(* call build_module in cache mode; each call probes the memory and disk   *)
(* caches, stages in the process's temporary root, runs the toolchain,     *)
(* promotes the staged tree with copy_to_cache under the per-module lock   *)
(* and loads the module under that lock again.                             *)
(*                                                                         *)
(* The modules locking, cache and paths are not part of the sources at     *)
(* hand; get_lock/release_lock, check_memory_cache, check_disk_cache,      *)
(* import_and_cache_module, get_temp_dir and delete_temp_dir are modelled  *)
(* from the specification (sections 4.2 to 4.5).                           *)
(*                                                                         *)
(* The computation of the module name from the arguments and copy_files    *)
(* are studied on their own (SpecFingerprint, SpecCopy); compute_checksum  *)
(* and modulename_from_checksum of the module signatures are modelled      *)
(* from section 4.1.  build_module_vtk and build_module_vmtk share the     *)
(* promotion and load steps (SpecVtk); SpecRaceFair adds a fair scheduler  *)
(* to the racers.                                                          *)
(***************************************************************************)
EXTENDS Naturals, FiniteSets, Sequences, TLC

\* Number of processes that call build_module again and again (Spec).
NumProcs == 2

\* Number of build_module calls made in one behaviour of Spec, over all
\* processes.
MaxCalls == 2

\* Number of processes that each call build_module once for the same
\* computed fingerprint (SpecRace).
NumRacers == 3

\* Number of files shutil.copytree copies after it created the destination
\* directory; the module is importable once the first has been copied.
CopySteps == 1

\* Number of build_module calls made in one behaviour of SpecLocal.
MaxLocalCalls == 3

Procs == 1..NumRacers

\* The process that calls with and without a module name (SpecLocal).
LocalProcs == {1}

\* The modulename argument of the calls that supply one.
LocalName == "x"

\* The caller-supplied signature of a call ("none": compute the fingerprint).
Signatures == {"none", "S"}

\* modulename_from_checksum(...): the module name a call resolves to.
ModuleName(sig) == IF sig = "none" THEN "mF" ELSE "mS"

Names == {ModuleName(s) : s \in Signatures} \cup {LocalName}

\* Mutant: the alias trail holds the module name only.
ModuleIdsNameOnly(sig) == {ModuleName(sig)}

\* The identifiers of the alias trail (moduleids) of a call.
ModuleIds(sig) == IF sig = "none" THEN {"mF"} ELSE {"S", "mS"}

\* Every identifier a module can be installed under: signatures and names.
Ids == (Signatures \ {"none"}) \cup Names

Roots == {"cache", "error"}

LockIds == Roots \X Names

\* A directory: ex (exists), n (files copied into it so far), so (the
\* compiled shared object: none, good = importable, bad = import fails),
\* log (compile.log), cks (content of <modulename>.checksum), by (for a
\* directory under the cache root: the process whose copytree made it).
NoDir == [ex |-> FALSE, n |-> 0, so |-> "none", log |-> FALSE, cks |-> "none", by |-> 0]

\* makedirs(module_path): an empty staged directory.
FreshDir == [ex |-> TRUE, n |-> CopySteps, so |-> "none", log |-> FALSE, cks |-> "none", by |-> 0]

\* compute_checksum(text, allfiles) of the staged files: one digest per
\* module name, since the staged files are determined by the inputs.
CompilationChecksum(m) == IF m = "mF" THEN "cA" ELSE "cB"

\* os.path.join(original_path, modulename).
LocalPath(m) == <<"cwd", m>>

NoPath == <<"nowhere">>

\* original_path = os.getcwd(): the working directory of the caller.
OriginalPath == <<"orig">>
TmpPath(p, m) == <<"tmp", p, m>>
CachePath(m) == <<"cache", m>>

NoResult == [kind |-> "none", path |-> NoPath, err |-> "none"]
Handle(path) == [kind |-> "handle", path |-> path, err |-> "none"]
Error(e) == [kind |-> "error", path |-> NoPath, err |-> e]

\* The sources argument: lists of file names, given by their suffixes.
SourceLists == {<< >>, <<".c", ".cpp">>, <<".C", ".cxx">>, <<".c", ".h">>}

\* What the staged files and compiler arguments of a call can be; each
\* has a compilation checksum of its own.
Inputs == {"A", "B"}

\* compute_checksum(text, allfiles) of the files staged from these inputs.
LocalChecksum(inp) == IF inp = "A" THEN "cA" ELSE "cB"

\* The arguments of a call: modulename ("none": None), sources, and the
\* rest of the inputs.
Requests == [modulename : {"none", LocalName}, sources : SourceLists, inputs : Inputs]

NoRequest == [modulename |-> "none", sources |-> << >>, inputs |-> "A"]

\* No toolchain run yet / no earlier call with a module name.
NoRun == [cks |-> "none", st |-> "none"]
NoPrev == [inputs |-> "none", ok |-> FALSE]

VARIABLES
    pc,          \* pc[p]: where process p is in build_module
    sig,         \* sig[p]: the signature argument of the calls p makes
    module_path, \* module_path[p]: the local variable module_path
    cwd,         \* cwd[p]: the working directory, OriginalPath or a path
    tmp,         \* tmp[p][m]: the directory <temp_root of p>/m
    memcache,    \* memcache[p][id]: the process's memory cache
    locks,       \* locks[l]: the processes holding lock l
    cacheDir,    \* cacheDir[m]: the directory <cache_root>/m
    errDir,      \* errDir[m]: the directory <error_root>/m
    result,      \* result[p]: what p's call returned or raised (pc[p] = "done")
    calls,       \* the number of build_module calls made so far
    budget,      \* the number of build_module calls the behaviour may make
    artifact,    \* artifact[m]: the shared object a zero exit of the toolchain leaves for m
    ran,         \* history: p's call invoked the toolchain
    status,      \* history: the exit status of the toolchain run of p's call
    promo,       \* history: how p's call left copy_to_cache
    probe,       \* history: what the disk-cache probe of p's call found
    succeeded,   \* history: the signatures for which a call of p returned a handle
    lastFail,    \* history: the module name of p's last call if its toolchain failed
    copiers,     \* history: copiers[m], the processes that copied into <cache_root>/m
    lateRuns,    \* history: lateRuns[m], the toolchain runs for m started while a
                 \* complete importable <cache_root>/m existed
    req,         \* req[p]: the arguments of p's call, when it supplied a module
                 \* name or failed validation
    localDir,    \* the directory <cwd>/<LocalName>
    lastRun,     \* history: the most recent toolchain run started in localDir
    okRuns,      \* history: okRuns[i], the toolchain runs in localDir for inputs i
                 \* that exited zero
    prevNamed,   \* history: the previous call with a module name that got
                 \* past recompile's guard
    swig,        \* the wrapper generator is installed
    srcfiles,    \* the source files of the requests: "ok", or "missing" from
                 \* the source directory
    bundle,      \* bundle[k]: the arguments of the k-th fingerprinted call
    signature,   \* signature[k]: the module name computed for bundle[k]
    copyArgs,    \* the arguments of a copy_files call
    destDir,     \* the destination directory of that call
    copyOut      \* what that call did: the warning, the outcome

vars == <<pc, sig, module_path, cwd, tmp, memcache, locks, cacheDir, errDir,
          result, calls, budget, artifact, ran, status, promo, probe, succeeded, lastFail,
          copiers, lateRuns, req, localDir, lastRun, okRuns, prevNamed,
          swig, srcfiles, bundle, signature, copyArgs, destDir, copyOut>>

\* What no step of a call changes: the requests and the toolchain's output.
env == <<sig, budget, artifact>>

\* The history of finished calls.
past == <<succeeded, lastFail>>

\* The calls that supply a module name: their arguments, their directory
\* and its history.
local == <<req, localDir, lastRun, okRuns, prevNamed>>

\* The machine the calls run on, and the calls studied on their own: the
\* fingerprint computation and copy_files.
fingerprints == <<bundle, signature>>
copying == <<copyArgs, destDir, copyOut>>
outside == <<swig, srcfiles, fingerprints, copying>>

\* No fingerprint computation and no copy_files call is studied.
NoFingerprint == bundle = << >> /\ signature = << >>
NoCopy == copyArgs = << >> /\ destDir = << >> /\ copyOut = << >>

\* The state before the first call, whatever the processes and requests.
Start ==
    /\ module_path = [p \in Procs |-> NoPath]
    /\ cwd = [p \in Procs |-> OriginalPath]
    /\ tmp = [p \in Procs |-> [m \in Names |-> NoDir]]
    /\ memcache = [p \in Procs |-> [i \in Ids |-> NoResult]]
    /\ locks = [l \in LockIds |-> {}]
    /\ cacheDir = [m \in Names |-> NoDir]
    /\ errDir = [m \in Names |-> NoDir]
    /\ result = [p \in Procs |-> NoResult]
    /\ calls = 0
    /\ artifact \in [Names -> {"good", "bad"}]
    /\ ran = [p \in Procs |-> FALSE]
    /\ status = [p \in Procs |-> "none"]
    /\ promo = [p \in Procs |-> "none"]
    /\ probe = [p \in Procs |-> "none"]
    /\ succeeded = [p \in Procs |-> {}]
    /\ lastFail = [p \in Procs |-> "none"]
    /\ copiers = [m \in Names |-> {}]
    /\ lateRuns = [m \in Names |-> 0]
    /\ req = [p \in Procs |-> NoRequest]
    /\ localDir = NoDir
    /\ lastRun = NoRun
    /\ okRuns = [i \in Inputs |-> 0]
    /\ prevNamed = NoPrev
    /\ swig = TRUE
    /\ srcfiles = "ok"

\* NumProcs processes, each with a request of its own that it may repeat;
\* MaxCalls calls in all.
Init ==
    /\ Start
    /\ NoFingerprint
    /\ NoCopy
    /\ pc = [p \in Procs |-> IF p <= NumProcs THEN "idle" ELSE "off"]
    /\ sig \in [Procs -> Signatures]
    /\ \A p \in Procs : p > NumProcs => sig[p] = "none"
    /\ \A m \in Names : (\A p \in 1..NumProcs : ModuleName(sig[p]) # m) => artifact[m] = "good"
    /\ budget = MaxCalls

\* One process that calls with or without a module name, MaxLocalCalls
\* calls in all.
InitLocal ==
    /\ Start
    /\ NoFingerprint
    /\ NoCopy
    /\ pc = [p \in Procs |-> IF p \in LocalProcs THEN "idle" ELSE "off"]
    /\ sig \in [Procs -> Signatures]
    /\ \A p \in Procs \ LocalProcs : sig[p] = "none"
    /\ \A m \in Names :
          (m # LocalName /\ \A p \in LocalProcs : ModuleName(sig[p]) # m) => artifact[m] = "good"
    /\ budget = MaxLocalCalls

\* NumRacers processes, each calling once for the same computed fingerprint.
InitRace ==
    /\ Start
    /\ NoFingerprint
    /\ NoCopy
    /\ pc = [p \in Procs |-> "idle"]
    /\ sig = [p \in Procs |-> "none"]
    /\ \A m \in Names : m # ModuleName("none") => artifact[m] = "good"
    /\ budget = NumRacers

Name(p) == ModuleName(sig[p])

\* An earlier call of p with the same inputs returned a handle.
Again(p) == sig[p] \in succeeded[p]

\* The toolchain of p's previous call, for the same module name, failed.
Retry(p) == lastFail[p] = Name(p)

\* The module loader: a directory is importable when it exists, holds a
\* good shared object and at least the first file has been copied.
Loadable(d) == d.ex /\ d.so = "good" /\ d.n >= 1

Complete(d) == d.ex /\ d.n = CopySteps

DirAt(path) ==
    IF path[1] = "cache" THEN cacheDir[path[2]]
    ELSE IF path[1] = "tmp" THEN tmp[path[2]][path[3]]
    ELSE NoDir

\* The outcomes of the module loader on directory d: a handle when d is
\* importable, otherwise it returns nothing or raises.
LoadOutcomes(d) == IF Loadable(d) THEN {"handle"} ELSE {"none", "raise"}

\* get_lock(dir, name): blocks until no process holds the lock.
LockFree(l) == locks[l] = {}

Acquired(p, l) == [locks EXCEPT ![l] = @ \cup {p}]

Released(p, l) == [locks EXCEPT ![l] = @ \ {p}]

\* install(...): the handle under every identifier of the alias trail.
Installed(p, ids, h) ==
    [memcache EXCEPT ![p] = [i \in Ids |-> IF i \in ids THEN h ELSE memcache[p][i]]]

\* delete_temp_dir(): the process's temporary root and all below it.
TempDeleted(p) == [tmp EXCEPT ![p] = [x \in Names |-> NoDir]]

\* Mutant: the working directory is not restored.
ExitNoChdir(p, r) ==
    /\ pc' = [pc EXCEPT ![p] = "done"]
    /\ result' = [result EXCEPT ![p] = r]
    /\ UNCHANGED cwd

\* The exit of build_module: finally: os.chdir(original_path).
Exit(p, r) ==
    /\ pc' = [pc EXCEPT ![p] = "done"]
    /\ cwd' = [cwd EXCEPT ![p] = OriginalPath]
    /\ result' = [result EXCEPT ![p] = r]

\* A return before the try block (the memory and disk cache hits, the
\* assertion on the staged path): the working directory was never changed.
EarlyExit(p, r) ==
    /\ pc' = [pc EXCEPT ![p] = "done"]
    /\ result' = [result EXCEPT ![p] = r]
    /\ UNCHANGED cwd

\* The history of the call in progress.
call == <<ran, status, promo, probe>>

\* Mutant: the memory cache never has the module.
MemoryHitNever(p) == FALSE

\* check_memory_cache(signature) found the module: return it.
MemoryHit(p) == sig[p] # "none" /\ memcache[p][sig[p]].kind = "handle"

\* build_module entered in cache mode (modulename is None): the signature
\* is computed or user-supplied; with a user-supplied signature the memory
\* cache is probed first and a hit returns at once.
Call(p) ==
    /\ pc[p] = "idle"
    /\ calls < budget
    /\ calls' = calls + 1
    /\ IF MemoryHit(p)
       THEN EarlyExit(p, memcache[p][sig[p]])
       ELSE /\ pc' = [pc EXCEPT ![p] = "disk_probe"]
            /\ UNCHANGED <<result, cwd>>
    /\ UNCHANGED <<module_path, tmp, memcache, locks, cacheDir, errDir, env, outside, local, call, past,
                   copiers, lateRuns>>

\* What a disk-cache probe of directory d finds.
ProbeView(d) ==
    IF d.ex /\ ~Complete(d)
    THEN (IF Loadable(d) THEN "partial_hit" ELSE "partial_miss")
    ELSE (IF Loadable(d) THEN "hit" ELSE "miss")

\* check_disk_cache(modulename, cache_dir, moduleids): the loader's
\* outcome on <cache_root>/<modulename> if that exists, else nothing.
DiskLookup(d) == IF d.ex THEN LoadOutcomes(d) ELSE {"none"}

\* Mutant: the module found on disk is not returned.
DiskHitNever(o) == FALSE

\* "if module: return module" after check_disk_cache.
DiskHit(o) == o = "handle"

\* Mutant: the staged path is never found to exist.
StagedPathFreeAlways(p, m) == TRUE

\* The staged path <temp_root>/<modulename> must not exist.
StagedPathFree(p, m) == ~tmp[p][m].ex

\* check_disk_cache, and on a miss the fresh staged path: the assertion
\* that <temp_root>/<modulename> does not exist, then makedirs.
DiskProbe(p) ==
    /\ pc[p] = "disk_probe"
    /\ LET m == Name(p)
           d == cacheDir[m]
       IN /\ probe' = [probe EXCEPT ![p] = ProbeView(d)]
          /\ \E o \in DiskLookup(d) :
               /\ memcache' = IF o = "handle"
                              THEN Installed(p, ModuleIds(sig[p]), Handle(CachePath(m)))
                              ELSE memcache
               /\ IF o = "raise"
                  THEN /\ EarlyExit(p, Error("LoaderException"))
                       /\ UNCHANGED <<tmp, module_path>>
                  ELSE IF DiskHit(o)
                  THEN /\ EarlyExit(p, Handle(CachePath(m)))
                       /\ UNCHANGED <<tmp, module_path>>
                  ELSE IF ~StagedPathFree(p, m)
                  THEN /\ EarlyExit(p, Error("InputError"))
                       /\ module_path' = [module_path EXCEPT ![p] = TmpPath(p, m)]
                       /\ UNCHANGED tmp
                  ELSE /\ tmp' = [tmp EXCEPT ![p][m] = FreshDir]
                       /\ module_path' = [module_path EXCEPT ![p] = TmpPath(p, m)]
                       /\ pc' = [pc EXCEPT ![p] = "stage"]
                       /\ UNCHANGED <<cwd, result>>
    /\ UNCHANGED <<locks, cacheDir, errDir, calls, env, outside, local, ran, status, promo, past,
                   copiers, lateRuns>>

\* Mutant: the guard takes every staged directory for current.
ChecksumCurrentAlways(d, m) == TRUE

\* recompile's guard: the checksum file holds the new checksum.
ChecksumCurrent(d, m) == d.cks = CompilationChecksum(m)

\* The source files a call without a module name lists.
SignedSources == <<".c">>

\* Mutant: a listed file is never missing.
SourcesFoundAlways(files) == TRUE

\* copy_files' assertion that each listed file is a file of the source
\* directory.
SourcesFound(files) == files = << >> \/ srcfiles = "ok"

\* Mutant: the wrapper generator is taken to be installed.
SwigFoundAlways == TRUE

\* get_swig_version() in recompile does not raise OSError.
SwigFound == swig

\* The try block up to the toolchain invocation: copy_files, chdir into
\* the staged directory, the generated files, and recompile: its guard
\* skips the toolchain when the checksum file holds the new checksum,
\* otherwise the wrapper generator is looked for, compile.log is opened and
\* the toolchain started.  A missing source file or wrapper generator
\* raises; only the working directory is restored.
Stage(p) ==
    /\ pc[p] = "stage"
    /\ LET m == Name(p)
           d == DirAt(module_path[p])
       IN IF ~SourcesFound(SignedSources)
          THEN /\ Exit(p, Error("InputError"))
               /\ UNCHANGED <<tmp, ran, lateRuns>>
          ELSE IF ChecksumCurrent(d, m)
          THEN /\ cwd' = [cwd EXCEPT ![p] = module_path[p]]
               /\ pc' = [pc EXCEPT ![p] = "promote_lock"]
               /\ UNCHANGED <<tmp, ran, lateRuns, result>>
          ELSE IF ~SwigFound
          THEN /\ Exit(p, Error("ToolchainError"))
               /\ UNCHANGED <<tmp, ran, lateRuns>>
          ELSE /\ cwd' = [cwd EXCEPT ![p] = module_path[p]]
               /\ pc' = [pc EXCEPT ![p] = "toolchain"]
               /\ tmp' = [tmp EXCEPT ![p][m].log = TRUE]
               /\ ran' = [ran EXCEPT ![p] = TRUE]
               /\ lateRuns' = [lateRuns EXCEPT ![m] =
                     IF Complete(cacheDir[m]) /\ Loadable(cacheDir[m]) /\ @ < NumRacers
                     THEN @ + 1 ELSE @]
               /\ UNCHANGED result
    /\ UNCHANGED <<module_path, memcache, locks, cacheDir, errDir, calls, env, outside, local,
                   status, promo, probe, past, copiers>>

\* Mutant: a non-zero exit status is taken for success.
ToolchainFailedNever(ret) == FALSE

\* "if ret != 0" after get_status_output.
ToolchainFailed(ret) == ret # 0

\* get_status_output(cmd) returns.  Exit status zero: the new checksum is
\* written and promotion follows.  Non-zero: the checksum file is removed,
\* instant_error raises and the finally clause copies to the error root.
Toolchain(p) ==
    /\ pc[p] = "toolchain"
    /\ LET m == Name(p) IN
       \E ret \in {0, 1} :
          /\ status' = [status EXCEPT ![p] = IF ret = 0 THEN "zero" ELSE "nonzero"]
          /\ IF ToolchainFailed(ret)
             THEN /\ tmp' = [tmp EXCEPT ![p][m].cks = "none"]
                  /\ pc' = [pc EXCEPT ![p] = "err_lock"]
             ELSE /\ tmp' = [tmp EXCEPT ![p][m].so = IF ret = 0 THEN artifact[m] ELSE "none",
                                        ![p][m].cks = CompilationChecksum(m)]
                  /\ pc' = [pc EXCEPT ![p] = "promote_lock"]
    /\ UNCHANGED <<module_path, cwd, memcache, locks, cacheDir, errDir, result, calls,
                   env, outside, local, ran, promo, probe, past, copiers, lateRuns>>

\* Mutant: copy_to_cache goes on without taking the lock.
PromoteGetLockUnlocked(p) ==
    /\ pc[p] = "promote_lock"
    /\ pc' = [pc EXCEPT ![p] = "promote_check"]
    /\ UNCHANGED <<module_path, cwd, tmp, memcache, locks, cacheDir, errDir, result,
                   calls, env, outside, local, call, past, copiers, lateRuns>>

\* copy_to_cache(module_path, cache_dir, modulename): get_lock.
PromoteGetLock(p) ==
    /\ pc[p] = "promote_lock"
    /\ LockFree(<<"cache", Name(p)>>)
    /\ locks' = Acquired(p, <<"cache", Name(p)>>)
    /\ pc' = [pc EXCEPT ![p] = "promote_check"]
    /\ UNCHANGED <<module_path, cwd, tmp, memcache, cacheDir, errDir, result, calls,
                   env, outside, local, call, past, copiers, lateRuns>>

\* Mutant: the existing cache path is not noticed and is copied over.
CachePathExistsNever(m) == FALSE

\* "check_for_existing_path and os.path.exists(cache_module_path)".
CachePathExists(m) == cacheDir[m].ex

\* Mutant: the lost race returns the staged path.
ExistingPathStaged(p, m) == module_path[p]

\* The path copy_to_cache returns when it finds the cache path existing.
ExistingPath(p, m) == CachePath(m)

\* copy_to_cache under the lock: an existing cache path is kept (warning,
\* release, return it); otherwise the staged directory must exist and
\* shutil.copytree creates the destination directory.
PromoteCheck(p) ==
    /\ pc[p] = "promote_check"
    /\ LET m == Name(p)
           l == <<"cache", m>>
           src == DirAt(module_path[p])
       IN IF CachePathExists(m)
          THEN /\ locks' = Released(p, l)
               /\ module_path' = [module_path EXCEPT ![p] = ExistingPath(p, m)]
               /\ promo' = [promo EXCEPT ![p] = "skipped"]
               /\ pc' = [pc EXCEPT ![p] = "load_lock"]
               /\ UNCHANGED <<cacheDir, copiers, cwd, result>>
          ELSE IF ~src.ex
          THEN /\ Exit(p, Error("InputError"))
               /\ UNCHANGED <<locks, module_path, promo, cacheDir, copiers>>
          ELSE /\ cacheDir' = [cacheDir EXCEPT ![m] = [src EXCEPT !.n = 0, !.by = p]]
               /\ copiers' = [copiers EXCEPT ![m] = @ \cup {p}]
               /\ pc' = [pc EXCEPT ![p] = "copying"]
               /\ UNCHANGED <<locks, module_path, promo, cwd, result>>
    /\ UNCHANGED <<tmp, memcache, errDir, calls, env, outside, local, ran, status, probe, past, lateRuns>>

\* Mutant: the temporary root is left behind.
CopyCleanupMissing(p) == tmp

\* "finally: delete_temp_dir()" of copy_to_cache.
CopyCleanup(p) == TempDeleted(p)

\* shutil.copytree copies one more file; after the last one the finally
\* clause deletes the temporary root and releases the lock, and
\* copy_to_cache returns the cache path.
CopyFile(p) ==
    /\ pc[p] = "copying"
    /\ LET m == Name(p) IN
       /\ cacheDir' = [cacheDir EXCEPT ![m].n = @ + 1]
       /\ IF cacheDir[m].n + 1 = CopySteps
          THEN /\ tmp' = CopyCleanup(p)
               /\ locks' = Released(p, <<"cache", m>>)
               /\ module_path' = [module_path EXCEPT ![p] = CachePath(m)]
               /\ promo' = [promo EXCEPT ![p] = "copied"]
               /\ pc' = [pc EXCEPT ![p] = "load_lock"]
          ELSE UNCHANGED <<tmp, locks, module_path, promo, pc>>
    /\ UNCHANGED <<cwd, memcache, errDir, result, calls, env, outside, local, ran, status, probe, past,
                   copiers, lateRuns>>

\* build_module: get_lock before the import.
LoadGetLock(p) ==
    /\ pc[p] = "load_lock"
    /\ LockFree(<<"cache", Name(p)>>)
    /\ locks' = Acquired(p, <<"cache", Name(p)>>)
    /\ pc' = [pc EXCEPT ![p] = "load"]
    /\ UNCHANGED <<module_path, cwd, tmp, memcache, cacheDir, errDir, result, calls,
                   env, outside, local, call, past, copiers, lateRuns>>

\* Mutant: the lock is kept when the loader returns nothing.
LoadKeepLock(p) ==
    /\ pc[p] = "load"
    /\ \E o \in LoadOutcomes(DirAt(module_path[p])) :
          IF o = "handle"
          THEN /\ memcache' = Installed(p, ModuleIds(sig[p]), Handle(module_path[p]))
               /\ locks' = Released(p, <<"cache", Name(p)>>)
               /\ Exit(p, Handle(module_path[p]))
          ELSE IF o = "none"
          THEN /\ Exit(p, Error("LoadError"))
               /\ UNCHANGED <<locks, memcache>>
          ELSE /\ Exit(p, Error("LoaderException"))
               /\ UNCHANGED <<locks, memcache>>
    /\ UNCHANGED <<module_path, tmp, cacheDir, errDir, calls, env, outside, local, call, past, copiers,
                   lateRuns>>

\* import_and_cache_module, release_lock, and the check of the module.
\* Nothing releases the lock when the loader raises.
Load(p) ==
    /\ pc[p] = "load"
    /\ LET l == <<"cache", Name(p)>> IN
       \E o \in LoadOutcomes(DirAt(module_path[p])) :
          IF o = "handle"
          THEN /\ memcache' = Installed(p, ModuleIds(sig[p]), Handle(module_path[p]))
               /\ locks' = Released(p, l)
               /\ Exit(p, Handle(module_path[p]))
          ELSE IF o = "none"
          THEN /\ locks' = Released(p, l)
               /\ Exit(p, Error("LoadError"))
               /\ UNCHANGED memcache
          ELSE /\ Exit(p, Error("LoaderException"))
               /\ UNCHANGED <<locks, memcache>>
    /\ UNCHANGED <<module_path, tmp, cacheDir, errDir, calls, env, outside, local, call, past, copiers,
                   lateRuns>>

\* recompile's finally clause after a failed run:
\* copy_to_cache(module_path, error_dir, modulename, False): get_lock.
ErrGetLock(p) ==
    /\ pc[p] = "err_lock"
    /\ LockFree(<<"error", Name(p)>>)
    /\ locks' = Acquired(p, <<"error", Name(p)>>)
    /\ pc' = [pc EXCEPT ![p] = "err_copy"]
    /\ UNCHANGED <<module_path, cwd, tmp, memcache, cacheDir, errDir, result, calls,
                   env, outside, local, call, past, copiers, lateRuns>>

\* copy_to_cache without the check for an existing path: copytree into
\* the error root, EEXIST swallowed when the directory is there already;
\* the temporary root is deleted, the lock released, and the error of
\* the failed run reaches the caller of build_module.
ErrCopy(p) ==
    /\ pc[p] = "err_copy"
    /\ LET m == Name(p)
           src == DirAt(module_path[p])
       IN IF ~src.ex
          THEN /\ Exit(p, Error("InputError"))
               /\ UNCHANGED <<errDir, tmp, locks>>
          ELSE /\ errDir' = [errDir EXCEPT ![m] = IF @.ex THEN @ ELSE src]
               /\ tmp' = CopyCleanup(p)
               /\ locks' = Released(p, <<"error", m>>)
               /\ Exit(p, Error("BuildError"))
    /\ UNCHANGED <<module_path, memcache, cacheDir, calls, env, outside, local, call, past, copiers,
                   lateRuns>>

\* The caller has the result of the call; the process is ready for its
\* next call.
Return(p) ==
    /\ pc[p] = "done"
    /\ pc' = [pc EXCEPT ![p] = "idle"]
    /\ succeeded' = [succeeded EXCEPT ![p] =
                        IF result[p].kind = "handle" THEN @ \cup {sig[p]} ELSE @]
    /\ lastFail' = [lastFail EXCEPT ![p] =
                        IF result[p].err = "BuildError" THEN Name(p) ELSE "none"]
    /\ result' = [result EXCEPT ![p] = NoResult]
    /\ module_path' = [module_path EXCEPT ![p] = NoPath]
    /\ ran' = [ran EXCEPT ![p] = FALSE]
    /\ status' = [status EXCEPT ![p] = "none"]
    /\ promo' = [promo EXCEPT ![p] = "none"]
    /\ probe' = [probe EXCEPT ![p] = "none"]
    /\ UNCHANGED <<cwd, tmp, memcache, locks, cacheDir, errDir, calls, env, outside, local, copiers,
                   lateRuns>>

\* The process dies while copytree is copying; the operating system
\* releases its advisory locks.
Kill(p) ==
    /\ pc[p] = "copying"
    /\ pc' = [pc EXCEPT ![p] = "dead"]
    /\ locks' = [l \in LockIds |-> locks[l] \ {p}]
    /\ UNCHANGED <<module_path, cwd, tmp, memcache, cacheDir, errDir, result, calls,
                   env, outside, local, call, past, copiers, lateRuns>>

Next ==
    \E p \in Procs :
        \/ Call(p)
        \/ DiskProbe(p)
        \/ Stage(p)
        \/ Toolchain(p)
        \/ PromoteGetLock(p)
        \/ PromoteCheck(p)
        \/ CopyFile(p)
        \/ LoadGetLock(p)
        \/ Load(p)
        \/ ErrGetLock(p)
        \/ ErrCopy(p)
        \/ Return(p)
        \/ Kill(p)

Spec == Init /\ [][Next]_vars

\* The steps of processes that each call once and do not die: the
\* results are never taken.
NextRace ==
    \E p \in Procs :
        \/ Call(p)
        \/ DiskProbe(p)
        \/ Stage(p)
        \/ Toolchain(p)
        \/ PromoteGetLock(p)
        \/ PromoteCheck(p)
        \/ CopyFile(p)
        \/ LoadGetLock(p)
        \/ Load(p)
        \/ ErrGetLock(p)
        \/ ErrCopy(p)

SpecRace == InitRace /\ [][NextRace]_vars

\* The steps of one racer.
RacerStep(p) ==
    \/ Call(p)
    \/ DiskProbe(p)
    \/ Stage(p)
    \/ Toolchain(p)
    \/ PromoteGetLock(p)
    \/ PromoteCheck(p)
    \/ CopyFile(p)
    \/ LoadGetLock(p)
    \/ Load(p)
    \/ ErrGetLock(p)
    \/ ErrCopy(p)

\* The racers under a fair scheduler, with a toolchain and a loader that
\* always return or raise: a racer that can take a step eventually does.
\* Every step of a racer changes pc.
SpecRaceFair == InitRace /\ [][NextRace]_vars /\ \A p \in Procs : WF_pc(RacerStep(p))

\* The source files with a suffix of C, and of C++.
IsCSource(f) == f \in {".c", ".C"}
IsCppSource(f) == f \in {".cpp", ".cxx"}

\* "len(csrcs) + len(cppsrcs) == len(sources)".
SuffixesRecognized(r) ==
    Len(SelectSeq(r.sources, IsCSource)) + Len(SelectSeq(r.sources, IsCppSource))
        = Len(r.sources)

\* Mutant: modulename and signature are accepted together.
BothGivenIgnored(p, r) == FALSE

\* "signature is not None and modulename is not None".
BothGiven(p, r) == sig[p] # "none" /\ r.modulename # "none"

\* The arguments pass the validation of build_module.
Valid(p, r) == ~BothGiven(p, r) /\ SuffixesRecognized(r)

\* Mutant: the module is installed under its name.
NamedIdsWithName == {LocalName}

\* "moduleids = []" when modulename is given.
NamedIds == {}

\* Mutant: the stored checksum is never taken for current.
ChecksumMatchesNever(d, c) == FALSE

\* recompile's guard on a directory whose checksum file may hold the
\* checksum of other inputs.
ChecksumMatches(d, c) == d.ex /\ d.cks = c

\* An exit of build_module when a module name was given or validation
\* failed: finally: os.chdir(original_path).
ExitNamed(p, r) ==
    /\ pc' = [pc EXCEPT ![p] = "ndone"]
    /\ cwd' = [cwd EXCEPT ![p] = OriginalPath]
    /\ result' = [result EXCEPT ![p] = r]

\* build_module called with arguments that fail validation: instant_assert
\* raises before anything else is done.
Reject(p) ==
    /\ pc[p] = "idle"
    /\ calls < budget
    /\ calls' = calls + 1
    /\ \E r \in Requests :
         /\ ~Valid(p, r)
         /\ req' = [req EXCEPT ![p] = r]
    /\ ExitNamed(p, Error("InputError"))
    /\ UNCHANGED <<module_path, tmp, memcache, locks, cacheDir, errDir, env, outside, call, past,
                   copiers, lateRuns, localDir, lastRun, okRuns, prevNamed>>

\* build_module called with a module name: use_cache = False,
\* module_path = <cwd>/<modulename>, makedirs(module_path).
CallNamed(p) ==
    /\ pc[p] = "idle"
    /\ calls < budget
    /\ calls' = calls + 1
    /\ \E r \in Requests :
         /\ Valid(p, r)
         /\ r.modulename # "none"
         /\ req' = [req EXCEPT ![p] = r]
         /\ module_path' = [module_path EXCEPT ![p] = LocalPath(r.modulename)]
    /\ localDir' = IF localDir.ex THEN localDir ELSE FreshDir
    /\ pc' = [pc EXCEPT ![p] = "nstage"]
    /\ UNCHANGED <<cwd, tmp, memcache, locks, cacheDir, errDir, result, env, outside, call, past,
                   copiers, lateRuns, lastRun, okRuns, prevNamed>>

\* The try block up to the toolchain invocation, in <cwd>/<modulename>:
\* copy_files, chdir, the generated files, and recompile: its guard, the
\* look for the wrapper generator, compile.log, the toolchain.
StageNamed(p) ==
    /\ pc[p] = "nstage"
    /\ LET c == LocalChecksum(req[p].inputs) IN
       IF ~SourcesFound(req[p].sources)
       THEN /\ ExitNamed(p, Error("InputError"))
            /\ UNCHANGED <<localDir, ran, lastRun>>
       ELSE IF ChecksumMatches(localDir, c)
       THEN /\ cwd' = [cwd EXCEPT ![p] = module_path[p]]
            /\ pc' = [pc EXCEPT ![p] = "nload"]
            /\ UNCHANGED <<localDir, ran, lastRun, result>>
       ELSE IF ~SwigFound
       THEN /\ ExitNamed(p, Error("ToolchainError"))
            /\ UNCHANGED <<localDir, ran, lastRun>>
       ELSE /\ cwd' = [cwd EXCEPT ![p] = module_path[p]]
            /\ pc' = [pc EXCEPT ![p] = "ntoolchain"]
            /\ localDir' = [localDir EXCEPT !.log = TRUE]
            /\ ran' = [ran EXCEPT ![p] = TRUE]
            /\ lastRun' = [cks |-> c, st |-> "running"]
            /\ UNCHANGED result
    /\ UNCHANGED <<module_path, tmp, memcache, locks, cacheDir, errDir, calls, env, outside,
                   status, promo, probe, past, copiers, lateRuns, req, okRuns, prevNamed>>

\* get_status_output(cmd) returns in <cwd>/<modulename>.  Exit status
\* zero: the new checksum is written.  Non-zero: the checksum file is
\* removed, instant_error raises and the finally clause copies to the
\* error root.
ToolchainNamed(p) ==
    /\ pc[p] = "ntoolchain"
    /\ LET m == req[p].modulename
           c == LocalChecksum(req[p].inputs)
       IN \E ret \in {0, 1} :
            /\ status' = [status EXCEPT ![p] = IF ret = 0 THEN "zero" ELSE "nonzero"]
            /\ IF ToolchainFailed(ret)
               THEN /\ localDir' = [localDir EXCEPT !.cks = "none"]
                    /\ lastRun' = [lastRun EXCEPT !.st = "nonzero"]
                    /\ pc' = [pc EXCEPT ![p] = "nerr_lock"]
                    /\ UNCHANGED okRuns
               ELSE /\ localDir' = [localDir EXCEPT !.so = artifact[m], !.cks = c]
                    /\ lastRun' = [lastRun EXCEPT !.st = "zero"]
                    /\ okRuns' = [okRuns EXCEPT ![req[p].inputs] = @ + 1]
                    /\ pc' = [pc EXCEPT ![p] = "nload"]
    /\ UNCHANGED <<module_path, cwd, tmp, memcache, locks, cacheDir, errDir, result, calls, env,
                   outside, ran, promo, probe, past, copiers, lateRuns, req, prevNamed>>

\* Mutant: the failed directory is copied under the lock of the cache root.
NamedErrLockInCache(m) == <<"cache", m>>

\* The lock copy_to_cache takes for get_default_error_dir() and the
\* module name.
NamedErrLock(m) == <<"error", m>>

\* copy_to_cache(module_path, get_default_error_dir(), modulename, ...)
\* of recompile's finally clause: get_lock.
ErrGetLockNamed(p) ==
    /\ pc[p] = "nerr_lock"
    /\ LockFree(NamedErrLock(req[p].modulename))
    /\ locks' = Acquired(p, NamedErrLock(req[p].modulename))
    /\ pc' = [pc EXCEPT ![p] = "nerr_copy"]
    /\ UNCHANGED <<module_path, cwd, tmp, memcache, cacheDir, errDir, result, calls, env,
                   outside, call, past, copiers, lateRuns, local>>

\* The rest of that copy_to_cache: copytree into <error_root>/<modulename>
\* (EEXIST swallowed), delete_temp_dir(), release_lock; then instant_error's
\* exception reaches the caller.
ErrCopyNamed(p) ==
    /\ pc[p] = "nerr_copy"
    /\ LET m == req[p].modulename IN
       /\ errDir' = [errDir EXCEPT ![m] = IF @.ex THEN @ ELSE localDir]
       /\ tmp' = CopyCleanup(p)
       /\ locks' = Released(p, NamedErrLock(m))
    /\ ExitNamed(p, Error("BuildError"))
    /\ UNCHANGED <<module_path, memcache, cacheDir, calls, env, outside, call, past, copiers,
                   lateRuns, local>>

\* import_and_cache_module(module_path, modulename, moduleids) without a
\* lock, and the check of the module.
LoadNamed(p) ==
    /\ pc[p] = "nload"
    /\ \E o \in LoadOutcomes(localDir) :
          IF o = "handle"
          THEN /\ memcache' = Installed(p, NamedIds, Handle(module_path[p]))
               /\ ExitNamed(p, Handle(module_path[p]))
          ELSE IF o = "none"
          THEN /\ ExitNamed(p, Error("LoadError"))
               /\ UNCHANGED memcache
          ELSE /\ ExitNamed(p, Error("LoaderException"))
               /\ UNCHANGED memcache
    /\ UNCHANGED <<module_path, tmp, locks, cacheDir, errDir, calls, env, outside, call, past,
                   copiers, lateRuns, local>>

\* The call of p raised before recompile's guard let it through: a source
\* file was missing or the wrapper generator was.
RaisedInStaging(p) ==
    /\ pc[p] \in {"done", "ndone"}
    /\ result[p] \in {Error("InputError"), Error("ToolchainError")}

\* The caller has the result of a call that gave a module name or failed
\* validation.
ReturnNamed(p) ==
    /\ pc[p] = "ndone"
    /\ pc' = [pc EXCEPT ![p] = "idle"]
    /\ prevNamed' = IF Valid(p, req[p]) /\ req[p].modulename # "none" /\ ~RaisedInStaging(p)
                    THEN [inputs |-> req[p].inputs, ok |-> result[p].kind = "handle"]
                    ELSE prevNamed
    /\ req' = [req EXCEPT ![p] = NoRequest]
    /\ result' = [result EXCEPT ![p] = NoResult]
    /\ module_path' = [module_path EXCEPT ![p] = NoPath]
    /\ ran' = [ran EXCEPT ![p] = FALSE]
    /\ status' = [status EXCEPT ![p] = "none"]
    /\ UNCHANGED <<cwd, tmp, memcache, locks, cacheDir, errDir, calls, env, outside, promo, probe,
                   past, copiers, lateRuns, localDir, lastRun, okRuns>>

\* The process dies while the toolchain runs in <cwd>/<modulename>.
KillNamed(p) ==
    /\ pc[p] = "ntoolchain"
    /\ pc' = [pc EXCEPT ![p] = "dead"]
    /\ lastRun' = [lastRun EXCEPT !.st = "killed"]
    /\ locks' = [l \in LockIds |-> locks[l] \ {p}]
    /\ UNCHANGED <<module_path, cwd, tmp, memcache, cacheDir, errDir, result, calls,
                   env, outside, call, past, copiers, lateRuns, req, localDir, okRuns, prevNamed>>

\* Between calls the wrapper generator is uninstalled.
Uninstall ==
    /\ \A p \in Procs : pc[p] \in {"idle", "off", "dead"}
    /\ swig
    /\ swig' = FALSE
    /\ UNCHANGED <<pc, module_path, cwd, tmp, memcache, locks, cacheDir, errDir, result, calls,
                   env, srcfiles, fingerprints, copying, call, past, copiers, lateRuns, local>>

\* Between calls the source files are removed from the source directory.
RemoveSources ==
    /\ \A p \in Procs : pc[p] \in {"idle", "off", "dead"}
    /\ srcfiles = "ok"
    /\ srcfiles' = "missing"
    /\ UNCHANGED <<pc, module_path, cwd, tmp, memcache, locks, cacheDir, errDir, result, calls,
                   env, swig, fingerprints, copying, call, past, copiers, lateRuns, local>>

\* The steps of the process that calls with or without a module name, and
\* of the machine it runs on.
NextLocal ==
    \/ Uninstall
    \/ RemoveSources
    \/ \E p \in LocalProcs :
        \/ Call(p)
        \/ DiskProbe(p)
        \/ Stage(p)
        \/ Toolchain(p)
        \/ PromoteGetLock(p)
        \/ PromoteCheck(p)
        \/ CopyFile(p)
        \/ LoadGetLock(p)
        \/ Load(p)
        \/ ErrGetLock(p)
        \/ ErrCopy(p)
        \/ Return(p)
        \/ Kill(p)
        \/ Reject(p)
        \/ CallNamed(p)
        \/ StageNamed(p)
        \/ ToolchainNamed(p)
        \/ ErrGetLockNamed(p)
        \/ ErrCopyNamed(p)
        \/ LoadNamed(p)
        \/ ReturnNamed(p)
        \/ KillNamed(p)

SpecLocal == InitLocal /\ [][NextLocal]_vars

\* ---- The interface fingerprint of build_module ----

\* Text is a sequence of characters.  The texts of code; of init_code.
CodeTexts == {<<"a">>, <<"a", "\n", "b">>}
InitTexts == {<<"b">>, <<"b", "\n", "b">>}

\* The lists of source files and of headers a call may give, and the
\* directories it may give.
SourceFiles == {<< >>, <<"f.c">>, <<"g.c">>}
HeaderFiles == {<< >>, <<"h.h">>}
SourceDirs == {"d1", "d2"}
CacheDirs == {"c1", "c2"}

\* The bytes of the files on disk.
Bytes(path) ==
    IF path[2] = "h.h" THEN <<"r">>
    ELSE IF path = <<"d2", "g.c">> THEN <<"q">>
    ELSE <<"p">>

\* The arguments of a call in cache mode without a signature; the other
\* arguments keep their defaults.
Bundles ==
    [code : CodeTexts, init_code : InitTexts, sources : SourceFiles,
     wrap_headers : HeaderFiles, local_headers : HeaderFiles,
     source_directory : SourceDirs, cache_dir : CacheDirs]

\* The two calls compared.
Sides == {1, 2}

\* str() of the arguments left at their defaults: additional_definitions,
\* additional_declarations, system_headers, include_dirs, library_dirs,
\* libraries, swig_include_dirs, swigargs, cppargs, lddargs, object_files,
\* arrays, generate_interface, generate_setup.
DefaultArgs ==
    << << >>, << >>, <<"[]">>, <<"['.']">>, <<"[]">>, <<"[]">>, <<"[]">>,
       <<"['-c++', '-fcompact', '-O', '-I.', '-small']">>, <<"['-O2']">>, <<"[]">>,
       <<"[]">>, <<"[]">>, <<"True">>, <<"True">> >>

\* Mutant: the source directory is one of the checksum arguments.
ChecksumArgsWithDirectory(b) == <<b.code, b.init_code, <<b.source_directory>> >> \o DefaultArgs

\* checksum_args, each under str(): the module name, the source
\* directory, the file names, the signature and the cache directory are
\* left out.
ChecksumArgs(b) == <<b.code, b.init_code>> \o DefaultArgs

\* "\n".join(...).
RECURSIVE Join(_)
Join(fields) ==
    IF fields = << >> THEN << >>
    ELSE IF Len(fields) = 1 THEN fields[1]
    ELSE fields[1] \o <<"\n">> \o Join(Tail(fields))

\* allfiles: sources + wrap_headers + local_headers, each joined to the
\* source directory.
AllFiles(b) ==
    LET names == b.sources \o b.wrap_headers \o b.local_headers
    IN [i \in 1..Len(names) |-> <<b.source_directory, names[i]>>]

\* The bytes of the files of a list, one after the other.
RECURSIVE FileBytes(_)
FileBytes(files) ==
    IF files = << >> THEN << >> ELSE Bytes(Head(files)) \o FileBytes(Tail(files))

\* compute_checksum(text, filenames): a collision-free digest of the text
\* followed by the bytes of each file, stood for by what is digested.
ComputeChecksum(text, files) == text \o FileBytes(files)

\* modulename_from_checksum(checksum): a fixed prefix and the digest.
ModulenameFromChecksum(checksum) == <<"instant_module_">> \o checksum

\* The module name build_module computes for the arguments b.
Signature(b) == ModulenameFromChecksum(ComputeChecksum(Join(ChecksumArgs(b)), AllFiles(b)))

\* What staging puts into the staged directory for the arguments b: the
\* copied files under their names, the interface file written from the
\* code and the headers, setup.py written from the sources and headers.
Staged(b) ==
    [files |-> {<<f[2], Bytes(f)>> : f \in {AllFiles(b)[i] : i \in DOMAIN AllFiles(b)}},
     interface |-> <<b.code, b.init_code, b.local_headers, b.wrap_headers>>,
     setup |-> <<b.sources, b.local_headers>>]

\* Every variable but those of the fingerprint computation and of the
\* copy_files call.
machine == <<pc, module_path, cwd, tmp, memcache, locks, cacheDir, errDir, result, calls, env,
             swig, srcfiles, call, past, copiers, lateRuns, local>>

\* No process calls build_module.
Quiet ==
    /\ Start
    /\ pc = [p \in Procs |-> "off"]
    /\ sig = [p \in Procs |-> "none"]
    /\ artifact = [m \in Names |-> "good"]
    /\ budget = 0

\* Two calls in cache mode without a signature, each with arguments of
\* its own.
InitFingerprint ==
    /\ Quiet
    /\ NoCopy
    /\ bundle \in [Sides -> Bundles]
    /\ signature = [k \in Sides |-> << >>]

\* One call computes its signature.
Fingerprint(k) ==
    /\ signature[k] = << >>
    /\ signature' = [signature EXCEPT ![k] = Signature(bundle[k])]
    /\ UNCHANGED <<machine, bundle, copying>>

NextFingerprint == \E k \in Sides : Fingerprint(k)

SpecFingerprint == InitFingerprint /\ [][NextFingerprint]_vars

\* ---- copy_files ----

\* The most files one copy_files call lists.
MaxFiles == 2

\* The names of the files in a directory.
BaseNames == {"f", "g"}

\* A path is the sequence of its components: a name relative to the
\* source directory has one, the path of a file in a directory two.
RelNames == {<<n>> : n \in BaseNames}
ListedNames == RelNames \cup {<<"d", "f">>}

FileLists == UNION {[1..n -> ListedNames] : n \in 0..MaxFiles}

\* A directory: whether it exists, and the content of each file in it.
Dirs == [ex : BOOLEAN, has : [BaseNames -> {"absent", "old", "new"}]]

\* The source directory, holding the files of the set present.
SourceDir(present) == [ex |-> TRUE, has |-> [n \in BaseNames |-> IF n \in present THEN "new" ELSE "absent"]]

\* os.path.join(dir, f): an absolute f stays as it is.
PathJoin(dir, f) == IF Len(f) > 1 THEN f ELSE <<dir>> \o f

\* glob.glob(os.path.join(dest, "*")): the paths of the files in dest.
Glob(dest, d) == {<<dest, n>> : n \in {x \in BaseNames : d.has[x] # "absent"}}

\* "overwriting = set(files) & set(glob.glob(os.path.join(dest, "*")))".
Overwriting(files, dest, d) == {files[i] : i \in DOMAIN files} \cap Glob(dest, d)

\* os.path.isfile(path) in the directories source and dest.
IsFile(path, source, src, dest, d) ==
    /\ Len(path) = 2
    /\ path[2] \in BaseNames
    /\ \/ path[1] = source /\ src.has[path[2]] # "absent"
       \/ path[1] = dest /\ d.has[path[2]] # "absent"

\* The loop of copy_files over the files from the i-th on: the two
\* assertions, the removal of an existing destination file, copyfile.
RECURSIVE CopyLoop(_, _, _, _, _, _)
CopyLoop(i, files, source, src, dest, d) ==
    IF i > Len(files) THEN [dir |-> d, outcome |-> "ok"]
    ELSE LET a == PathJoin(source, files[i])
             b == PathJoin(dest, files[i])
         IN IF a = b THEN [dir |-> d, outcome |-> "InputError"]
            ELSE IF ~IsFile(a, source, src, dest, d) THEN [dir |-> d, outcome |-> "InputError"]
            ELSE CopyLoop(i + 1, files, source, src, dest,
                          [d EXCEPT !.has[b[2]] = src.has[a[2]]])

\* copy_files(source, dest, files) on the destination directory d: the
\* warning, the directory afterwards, the outcome.
CopyFiles(source, src, dest, d, files) ==
    LET made == IF d.ex THEN d ELSE [d EXCEPT !.ex = TRUE]
        loop == IF source # dest
                THEN CopyLoop(1, files, source, src, dest, made)
                ELSE [dir |-> made, outcome |-> "ok"]
    IN [warned |-> d.ex /\ Overwriting(files, dest, d) # {},
        dir |-> loop.dir,
        outcome |-> loop.outcome]

\* The arguments of the call, the files present in the source directory
\* and the destination directory as the call finds it.
CopyCalls ==
    {c \in [source : {"s"}, dest : {"d", "s"}, files : FileLists,
            present : SUBSET BaseNames, found : Dirs] :
        /\ c.dest = c.source => c.found = SourceDir(c.present)
        /\ c.dest # c.source =>
              /\ \A n \in BaseNames : c.found.has[n] \in {"absent", "old"}
              /\ ~c.found.ex => \A n \in BaseNames : c.found.has[n] = "absent"}

NoOutcome == [done |-> FALSE, warned |-> FALSE, outcome |-> "none"]

InitCopy ==
    /\ Quiet
    /\ NoFingerprint
    /\ copyArgs \in CopyCalls
    /\ destDir = copyArgs.found
    /\ copyOut = NoOutcome

\* copy_files runs.
CopyFilesCall ==
    /\ ~copyOut.done
    /\ LET r == CopyFiles(copyArgs.source, SourceDir(copyArgs.present), copyArgs.dest,
                          destDir, copyArgs.files)
       IN /\ destDir' = r.dir
          /\ copyOut' = [done |-> TRUE, warned |-> r.warned, outcome |-> r.outcome]
    /\ UNCHANGED <<machine, fingerprints, copyArgs>>

NextCopy == CopyFilesCall

SpecCopy == InitCopy /\ [][NextCopy]_vars

\* ---- build_module_vtk and build_module_vmtk ----

\* build_module_vtk(c_code) or build_module_vmtk(c_code) entered: the
\* signature is computed from the code, no cache is probed, the staged
\* directory is made under the temporary root, the process changes into
\* it and writes the cmake and interface files.
CallVtk(p) ==
    /\ pc[p] = "idle"
    /\ calls < budget
    /\ sig[p] = "none"
    /\ calls' = calls + 1
    /\ LET m == Name(p) IN
       /\ module_path' = [module_path EXCEPT ![p] = TmpPath(p, m)]
       /\ tmp' = [tmp EXCEPT ![p][m] = IF @.ex THEN [@ EXCEPT !.log = TRUE]
                                       ELSE [FreshDir EXCEPT !.log = TRUE]]
       /\ cwd' = [cwd EXCEPT ![p] = TmpPath(p, m)]
    /\ ran' = [ran EXCEPT ![p] = TRUE]
    /\ pc' = [pc EXCEPT ![p] = "vtoolchain"]
    /\ UNCHANGED <<memcache, locks, cacheDir, errDir, result, env, outside, local, status,
                   promo, probe, past, copiers, lateRuns>>

\* cmake and make return; their exit status is assigned to ret and not
\* looked at, and copy_to_cache follows.
ToolchainVtk(p) ==
    /\ pc[p] = "vtoolchain"
    /\ LET m == Name(p) IN
       \E ret \in {0, 1} :
          /\ status' = [status EXCEPT ![p] = IF ret = 0 THEN "zero" ELSE "nonzero"]
          /\ tmp' = [tmp EXCEPT ![p][m].so = IF ret = 0 THEN artifact[m] ELSE "none"]
    /\ pc' = [pc EXCEPT ![p] = "promote_lock"]
    /\ UNCHANGED <<module_path, cwd, memcache, locks, cacheDir, errDir, result, calls,
                   env, outside, local, ran, promo, probe, past, copiers, lateRuns>>

\* import_and_cache_module and release_lock; the module is returned
\* whatever it is.  Nothing releases the lock when the loader raises.
LoadVtk(p) ==
    /\ pc[p] = "load"
    /\ LET l == <<"cache", Name(p)>> IN
       \E o \in LoadOutcomes(DirAt(module_path[p])) :
          IF o = "handle"
          THEN /\ memcache' = Installed(p, ModuleIds(sig[p]), Handle(module_path[p]))
               /\ locks' = Released(p, l)
               /\ Exit(p, Handle(module_path[p]))
          ELSE IF o = "none"
          THEN /\ locks' = Released(p, l)
               /\ Exit(p, NoResult)
               /\ UNCHANGED memcache
          ELSE /\ Exit(p, Error("LoaderException"))
               /\ UNCHANGED <<locks, memcache>>
    /\ UNCHANGED <<module_path, tmp, cacheDir, errDir, calls, env, outside, local, call, past,
                   copiers, lateRuns>>

\* NumProcs processes that call build_module_vtk or build_module_vmtk,
\* MaxCalls calls in all.
InitVtk ==
    /\ Init
    /\ sig = [p \in Procs |-> "none"]

NextVtk ==
    \E p \in Procs :
        \/ CallVtk(p)
        \/ ToolchainVtk(p)
        \/ PromoteGetLock(p)
        \/ PromoteCheck(p)
        \/ CopyFile(p)
        \/ LoadGetLock(p)
        \/ LoadVtk(p)
        \/ Return(p)

SpecVtk == InitVtk /\ [][NextVtk]_vars

----
\* The processes inside a critical section guarded by lock l: the promotion
\* section of copy_to_cache, the load section of build_module, and the
\* copy into the error root.
InCritical(l) ==
    {p \in Procs :
        \/ l = <<"cache", Name(p)>> /\ pc[p] \in {"promote_check", "copying", "load"}
        \/ l = <<"error", Name(p)>> /\ pc[p] = "err_copy"}

\* C1: racers of one fingerprint whose toolchain runs succeeded: at most
\* one process ever copies into <cache_root>/F and, once a racer is past
\* promotion, exactly one has; every other racer skipped the copy; each
\* holds the cache path, and each finished call returned a handle loaded
\* from <cache_root>/F whenever that directory is importable.
RacerConvergence ==
    \A p \in Procs :
        LET m == Name(p) IN
        /\ Cardinality(copiers[m]) <= 1
        /\ (status[p] = "zero" /\ promo[p] # "none") =>
              /\ Cardinality(copiers[m]) = 1
              /\ (promo[p] = "copied") = (p \in copiers[m])
              /\ (promo[p] = "skipped") = (p \notin copiers[m])
              /\ module_path[p] = CachePath(m)
        /\ (pc[p] = "done" /\ result[p].kind = "handle") => result[p].path = CachePath(m)
        /\ (pc[p] = "done" /\ status[p] = "zero" /\ Loadable(cacheDir[m])) =>
              result[p] = Handle(CachePath(m))

\* C1 witness: every process raced (ran its toolchain), one copied, the
\* others skipped, and all returned the handle of <cache_root>/F.
RacerConvergenceWitness ==
    /\ \A p \in Procs : pc[p] = "done" /\ ran[p] /\ result[p] = Handle(CachePath(Name(p)))
    /\ Cardinality({p \in Procs : promo[p] = "copied"}) = 1
    /\ Cardinality({p \in Procs : promo[p] = "skipped"}) = NumRacers - 1

LockMutualExclusion ==
    \A l \in LockIds :
        /\ Cardinality(locks[l]) <= 1
        /\ Cardinality(InCritical(l)) <= 1
        /\ InCritical(l) \subseteq locks[l]

\* C3 witness: one process copies under the lock while another waits for
\* the same lock.
LockMutualExclusionWitness ==
    \E p, q \in Procs :
        /\ p # q /\ Name(p) = Name(q)
        /\ pc[p] = "copying" /\ pc[q] = "promote_lock"
        /\ locks[<<"cache", Name(p)>>] = {p}

\* C4 as stated: a process whose call returned or raised holds no lock.
LockReleasedOnExit ==
    \A p \in Procs : pc[p] \in {"done", "idle"} => \A l \in LockIds : p \notin locks[l]

\* C5 as stated: no disk-cache probe finds <cache_root>/F existing in a
\* partially copied state.
AtomicPromotion == \A p \in Procs : probe[p] \notin {"partial_hit", "partial_miss"}

\* C6: a build whose toolchain exits non-zero never enters promotion;
\* when it has raised, its staged directory is gone and it holds no lock
\* of the error root; the next call of the process for the same module
\* name is not rejected by the staged-path assertion, and it reaches the
\* toolchain again unless <cache_root>/F exists by then.
CrashAtomicity ==
    \A p \in Procs :
        LET m == Name(p) IN
        /\ status[p] = "nonzero" =>
              /\ promo[p] = "none"
              /\ pc[p] \in {"err_lock", "err_copy", "done"}
        /\ (pc[p] = "done" /\ status[p] = "nonzero") =>
              /\ ~tmp[p][m].ex
              /\ p \notin locks[<<"error", m>>]
        /\ (Retry(p) /\ pc[p] = "done") =>
              /\ result[p] # Error("InputError")
              /\ (~ran[p] => cacheDir[m].ex)

\* C6 witness: after a failed toolchain run the same process called
\* again for the same module name and its toolchain exited zero.
CrashAtomicityWitness ==
    \E p \in Procs : Retry(p) /\ ran[p] /\ status[p] = "zero" /\ errDir[Name(p)].ex

\* C7: an existing <cache_root>/F is never removed or replaced; only the
\* copytree that made it adds files to it; a promotion that finds it
\* skips the copy and returns the existing path; a copy into an existing
\* error directory changes nothing and the failed run's error stands.
FirstWriterWins ==
    [][\A p \in Procs :
          LET m == Name(p) IN
          /\ cacheDir[m].ex =>
                /\ cacheDir'[m] = [cacheDir[m] EXCEPT !.n = cacheDir'[m].n]
                /\ cacheDir'[m].n >= cacheDir[m].n
                /\ cacheDir'[m].n # cacheDir[m].n =>
                      pc[cacheDir[m].by] = "copying" /\ Name(cacheDir[m].by) = m
          /\ (pc[p] = "promote_check" /\ cacheDir[m].ex /\ pc'[p] # pc[p]) =>
                /\ promo'[p] = "skipped"
                /\ module_path'[p] = CachePath(m)
                /\ pc'[p] = "load_lock"
                /\ cacheDir' = cacheDir
          /\ (pc[p] = "err_copy" /\ errDir[m].ex /\ pc'[p] # pc[p]) =>
                /\ errDir' = errDir
                /\ result'[p] = Error("BuildError")
      ]_vars

\* C7 witness: a promotion found the directory another process had
\* copied, and skipped.
FirstWriterWinsWitness ==
    \E p \in Procs :
        /\ promo[p] = "skipped"
        /\ Complete(cacheDir[Name(p)])
        /\ cacheDir[Name(p)].by # p

\* C8: a call of a process in which an earlier call with the same inputs
\* returned a handle does not invoke the toolchain, and returns a handle
\* of the same cache directory.
Idempotence ==
    \A p \in Procs :
        Again(p) =>
            /\ ~ran[p]
            /\ pc[p] = "done" => result[p] = Handle(CachePath(Name(p)))

\* C8 witness: the second call with a computed fingerprint has returned.
IdempotenceWitness ==
    \E p \in Procs : Again(p) /\ pc[p] = "done" /\ sig[p] = "none" /\ probe[p] = "hit"

\* C9: a disk-cache probe that finds <cache_root>/<modulename> importable
\* returns its handle, installed under the signature and the module
\* name, and changes neither staged directories, the cache and error
\* roots, the locks nor the working directory, and runs no toolchain.
DiskCacheHit ==
    [][\A p \in Procs :
          LET m == Name(p) IN
          (pc[p] = "disk_probe" /\ Loadable(cacheDir[m]) /\ pc'[p] # pc[p]) =>
              /\ pc'[p] = "done"
              /\ result'[p] = Handle(CachePath(m))
              /\ \A i \in {sig[p], m} \ {"none"} : memcache'[p][i] = Handle(CachePath(m))
              /\ ~ran'[p]
              /\ UNCHANGED <<tmp, cacheDir, errDir, locks, cwd, module_path>>
      ]_vars

\* C9 witness: a call with a user-supplied signature returned from the
\* disk cache, the handle installed under signature and module name.
DiskCacheHitWitness ==
    \E p \in Procs :
        /\ pc[p] = "done" /\ probe[p] = "hit" /\ sig[p] = "S"
        /\ memcache[p]["S"] = result[p]
        /\ memcache[p]["mS"] = result[p]
        /\ result[p] = Handle(CachePath("mS"))

\* C10: when the toolchain exited non-zero, the call raises the build
\* error, <error_root>/F holds compile.log and no checksum file, the
\* staged directory never held a checksum file, and the call created no
\* <cache_root>/F.
ToolchainFailure ==
    \A p \in Procs :
        LET m == Name(p) IN
        status[p] = "nonzero" =>
            /\ tmp[p][m].cks = "none"
            /\ promo[p] = "none"
            /\ pc[p] \in {"err_lock", "err_copy", "done"}
            /\ pc[p] = "done" =>
                  /\ result[p] = Error("BuildError")
                  /\ errDir[m].ex /\ errDir[m].log /\ errDir[m].cks = "none"

\* C10 witness: a call has raised the build error.
ToolchainFailureWitness ==
    \E p \in Procs :
        pc[p] = "done" /\ status[p] = "nonzero" /\ result[p] = Error("BuildError")

\* Process p is in a call that passed validation with a module name.
InNamedCall(p) ==
    req[p].modulename # "none" /\ module_path[p] = LocalPath(req[p].modulename)

\* C11: a call that supplies a module name builds in <cwd>/<modulename>,
\* created if missing; no step of it probes the disk cache, changes the
\* cache root or its locks, or installs anything in the memory cache; a
\* handle it returns was loaded from <cwd>/<modulename>.
ExplicitNameBypassesCache ==
    [][\A p \in Procs :
          req'[p].modulename # "none" =>
              /\ UNCHANGED <<cacheDir, memcache, probe, promo, copiers>>
              /\ \A m \in Names : locks'[<<"cache", m>>] \subseteq locks[<<"cache", m>>]
              /\ \A m \in Names : tmp'[p][m].ex => tmp[p][m].ex
              /\ (pc[p] = "idle" /\ pc'[p] # "ndone") =>
                    /\ localDir'.ex
                    /\ module_path'[p] = LocalPath(LocalName)
              /\ result'[p].kind = "handle" => result'[p].path = LocalPath(LocalName)
      ]_vars

\* C11 witness: a call with a module name ran the toolchain and returned
\* the handle of <cwd>/<modulename>; the memory cache and the cache root
\* are empty.
ExplicitNameBypassesCacheWitness ==
    \E p \in Procs :
        /\ req[p].modulename = LocalName /\ pc[p] = "ndone" /\ ran[p]
        /\ result[p] = Handle(LocalPath(LocalName))
        /\ \A i \in Ids : memcache[p][i] = NoResult
        /\ \A m \in Names : ~cacheDir[m].ex

CwdRestored ==
    \A p \in Procs : pc[p] \in {"idle", "done", "ndone"} => cwd[p] = OriginalPath

\* C13 witness: a call in cache mode changed into the staged directory
\* and raised from the module loader.
CwdRestoredWitness ==
    \E p \in Procs :
        /\ pc[p] = "done" /\ ran[p] /\ result[p] = Error("LoaderException")
        /\ promo[p] = "copied" /\ cwd[p] = OriginalPath

\* C14: a call that supplies both modulename and signature, or a source
\* without one of the suffixes .c, .C, .cpp, .cxx, raises the input error
\* in its first step, which creates no directory, takes no lock, probes
\* no cache and starts no toolchain.
ValidationTerminal ==
    [][\A p \in Procs :
          (/\ pc[p] = "idle" /\ pc'[p] # "idle"
           /\ \/ sig[p] # "none" /\ req'[p].modulename # "none"
              \/ \E i \in 1..Len(req'[p].sources) :
                    req'[p].sources[i] \notin {".c", ".C", ".cpp", ".cxx"}) =>
              /\ pc'[p] = "ndone"
              /\ result'[p] = Error("InputError")
              /\ UNCHANGED <<tmp, localDir, locks, cacheDir, errDir, memcache, cwd,
                             probe, ran, status, lastRun>>
      ]_vars

\* C14 witness: a call with both modulename and signature was rejected.
ValidationTerminalWitness ==
    \E p \in Procs :
        /\ pc[p] = "ndone" /\ sig[p] = "S" /\ req[p].modulename = LocalName
        /\ result[p] = Error("InputError")
        /\ ~localDir.ex

AtMostOneSuccessPerFingerprint == \A i \in Inputs : okRuns[i] <= 1

\* C16 amended: a toolchain run that exits zero for a compilation
\* fingerprint was started while the checksum file did not hold that
\* fingerprint, and leaves the checksum file holding it.
SuccessOnlyWhenStale ==
    [][\A i \in Inputs :
          okRuns'[i] > okRuns[i] =>
              /\ localDir.cks # LocalChecksum(i)
              /\ localDir'.cks = LocalChecksum(i)
              /\ lastRun' = [cks |-> LocalChecksum(i), st |-> "zero"]
      ]_vars

\* C16 witness: calls with inputs A, B, A in one directory: the toolchain
\* exited zero twice for A and once for B.
SuccessOnlyWhenStaleWitness == okRuns["A"] = 2 /\ okRuns["B"] = 1

\* C17 as stated: when the checksum file of the directory stores a digest
\* and no toolchain run of a live process is under way, the most recent
\* toolchain run started in the directory exited zero for that digest.
NoMasquerading ==
    (localDir.cks # "none" /\ \A p \in Procs : pc[p] # "ntoolchain") =>
        lastRun = [cks |-> localDir.cks, st |-> "zero"]

\* C18: a call returns a handle in its first step only in cache mode with
\* a user-supplied signature under which the memory cache holds that
\* handle, and that step probes no disk cache, stages nothing, takes no
\* lock and runs no toolchain; a call with a signature for which an
\* earlier call of the process returned a handle is such a hit.
MemoryCacheProbe ==
    [][\A p \in Procs :
          /\ (pc[p] = "idle" /\ pc'[p] \in {"done", "ndone"} /\ result'[p].kind = "handle") =>
                /\ sig[p] # "none"
                /\ req'[p].modulename = "none"
                /\ result'[p] = memcache[p][sig[p]]
                /\ UNCHANGED <<tmp, locks, cacheDir, errDir, memcache, cwd, probe, ran,
                               module_path, localDir, lastRun>>
          /\ (pc[p] = "idle" /\ pc'[p] \notin {"idle", "ndone"}
              /\ sig[p] # "none" /\ sig[p] \in succeeded[p]) =>
                /\ pc'[p] = "done"
                /\ result'[p] = Handle(CachePath(Name(p)))
      ]_vars

\* C18 witness: the second call with signature S returned from the memory
\* cache after the first one had compiled.
MemoryCacheProbeWitness ==
    \E p \in Procs :
        /\ pc[p] = "done" /\ sig[p] = "S" /\ "S" \in succeeded[p]
        /\ probe[p] = "none" /\ ~ran[p]
        /\ result[p] = Handle(CachePath("mS"))
        /\ cacheDir["mS"].by = p

\* C19: a call that raised the load error holds no lock and has no
\* handle in the memory cache.
LoadFailure ==
    \A p \in Procs :
        (pc[p] = "done" /\ result[p] = Error("LoadError")) =>
            /\ \A l \in LockIds : p \notin locks[l]
            /\ \A i \in Ids : memcache[p][i].kind # "handle"
            /\ status[p] = "zero" /\ promo[p] \in {"copied", "skipped"}

\* C19 witness: after a zero exit and the copy to the cache root the
\* loader returned nothing.
LoadFailureWitness ==
    \E p \in Procs :
        /\ pc[p] = "done" /\ result[p] = Error("LoadError")
        /\ status[p] = "zero" /\ promo[p] = "copied"
        /\ Complete(cacheDir[Name(p)])

\* C20 as stated: after a promotion that returned, by copying or by
\* finding the cache directory present, nothing is left of the process's
\* temporary root.
TempRootCleanup ==
    \A p \in Procs :
        promo[p] \in {"copied", "skipped"} => \A m \in Names : ~tmp[p][m].ex

\* C23 as stated: after every error raised once the staged directory was
\* there (a source file missing during the copy, the wrapper generator
\* missing, a non-zero exit of the toolchain) a copy of the staged
\* directory exists under <error_root>/<module_name>.
FailedStagingPreserved ==
    \A p \in Procs :
        /\ (pc[p] = "done" /\ result[p] \in {Error("ToolchainError"), Error("BuildError")}) =>
              errDir[Name(p)].ex
        /\ (/\ pc[p] = "ndone" /\ InNamedCall(p)
            /\ result[p] \in {Error("InputError"), Error("ToolchainError"), Error("BuildError")}) =>
              errDir[req[p].modulename].ex

\* C25 as stated: after a toolchain run for module name M that exited
\* non-zero, a second or later one included, <error_root>/M holds the
\* contents of the directory that run was made in.
EachFailurePreserved ==
    \A p \in Procs :
        /\ (pc[p] = "done" /\ result[p] = Error("BuildError")) =>
              errDir[Name(p)].ex /\ errDir[Name(p)].log
        /\ (pc[p] = "ndone" /\ InNamedCall(p) /\ result[p] = Error("BuildError")) =>
              errDir[req[p].modulename] = localDir

\* C26: a call in cache mode goes on to staging only when
\* <temp_root>/<module_name> did not exist, and then creates it; when the
\* path exists and the disk cache gives no module, the call raises the
\* assertion error with nothing copied, generated or run.
FreshStagingPath ==
    [][\A p \in Procs :
          LET m == Name(p) IN
          /\ (pc[p] = "disk_probe" /\ pc'[p] = "stage") =>
                ~tmp[p][m].ex /\ tmp'[p][m] = FreshDir
          /\ (pc[p] = "disk_probe" /\ pc'[p] # "disk_probe" /\ tmp[p][m].ex) =>
                /\ pc'[p] = "done"
                /\ ~ran'[p] /\ tmp' = tmp /\ cacheDir' = cacheDir /\ cwd' = cwd
                /\ \/ result'[p] = Error("InputError")
                   \/ result'[p] = Error("LoaderException") /\ cacheDir[m].ex
                   \/ result'[p] = Handle(CachePath(m)) /\ Loadable(cacheDir[m])
                /\ ~cacheDir[m].ex => result'[p] = Error("InputError")
      ]_vars

\* C26 witness: with its source files in place, a call found its staged
\* path left by an earlier call and raised the assertion error.
FreshStagingPathWitness ==
    \E p \in Procs :
        /\ pc[p] = "done" /\ result[p] = Error("InputError")
        /\ srcfiles = "ok"
        /\ tmp[p][Name(p)].ex /\ module_path[p] = TmpPath(p, Name(p))
        /\ ~ran[p] /\ cwd[p] = OriginalPath

MissingWrapperGenerator ==
    [][\A p \in Procs :
          /\ (/\ pc[p] = "nstage" /\ pc'[p] # "nstage"
              /\ SourcesFound(req[p].sources) /\ ~swig) =>
                IF localDir.ex /\ localDir.cks = LocalChecksum(req[p].inputs)
                THEN pc'[p] = "nload" /\ result'[p] = NoResult /\ ~ran'[p]
                ELSE /\ pc'[p] = "ndone" /\ result'[p] = Error("ToolchainError")
                     /\ ~ran'[p] /\ status'[p] = "none"
                     /\ localDir' = localDir /\ cacheDir' = cacheDir /\ errDir' = errDir
          /\ (pc[p] = "stage" /\ pc'[p] # "stage" /\ SourcesFound(SignedSources) /\ ~swig) =>
                /\ pc'[p] = "done" /\ result'[p] = Error("ToolchainError")
                /\ ~ran'[p] /\ status'[p] = "none"
                /\ tmp' = tmp /\ cacheDir' = cacheDir /\ errDir' = errDir
      ]_vars

\* C29 witness: with the wrapper generator uninstalled after an earlier
\* successful call, a call with the same module name and inputs passed
\* recompile and is about to load.
MissingWrapperGeneratorWitness ==
    \E p \in Procs :
        /\ InNamedCall(p) /\ pc[p] = "nload" /\ ~swig /\ ~ran[p]
        /\ localDir.cks = LocalChecksum(req[p].inputs)

\* C24 as stated: a call copies into <cache_root>/F only after its own
\* toolchain run exited zero and wrote the checksum, loads only after
\* promotion returned, and never runs the toolchain while it holds the
\* lock of its fingerprint.
StepOrdering ==
    \A p \in Procs :
        LET m == Name(p) IN
        /\ pc[p] = "copying" =>
              ran[p] /\ status[p] = "zero" /\ tmp[p][m].cks = CompilationChecksum(m)
        /\ promo[p] = "copied" => ran[p] /\ status[p] = "zero"
        /\ pc[p] \in {"load_lock", "load"} => promo[p] \in {"copied", "skipped"}
        /\ pc[p] = "toolchain" => p \notin locks[<<"cache", m>>]

\* C27 as stated: a process never waits for a lock it holds, and the copy
\* into the error root is made while it holds no other lock.
NoNestedAcquisition ==
    \A p \in Procs :
        LET m == Name(p) IN
        /\ pc[p] \in {"promote_lock", "load_lock"} => p \notin locks[<<"cache", m>>]
        /\ pc[p] = "err_lock" => \A l \in LockIds : p \notin locks[l]
        /\ pc[p] = "err_copy" => \A l \in LockIds \ {<<"error", m>>} : p \notin locks[l]

\* The bytes of the referenced files of the arguments b, file by file.
ReferencedBytes(b) == [i \in DOMAIN AllFiles(b) |-> Bytes(AllFiles(b)[i])]

\* C21: two calls whose captured arguments are equal and whose referenced
\* files have equal bytes, file by file, compute the same module name and
\* so the same path under one cache root, whatever their source
\* directories, cache directories and file names.
FingerprintDeterminism ==
    \A j, k \in Sides :
        (/\ signature[j] # << >> /\ signature[k] # << >>
         /\ bundle[j].code = bundle[k].code /\ bundle[j].init_code = bundle[k].init_code
         /\ ReferencedBytes(bundle[j]) = ReferencedBytes(bundle[k])) =>
            /\ signature[j] = signature[k]
            /\ CachePath(signature[j]) = CachePath(signature[k])

\* C21 witness: two calls that differ in source directory, cache directory
\* and file name computed the same module name.
FingerprintDeterminismWitness ==
    /\ signature[1] # << >> /\ signature[1] = signature[2]
    /\ bundle[1].source_directory # bundle[2].source_directory
    /\ bundle[1].cache_dir # bundle[2].cache_dir
    /\ bundle[1].sources # bundle[2].sources
    /\ bundle[1].sources # << >> /\ bundle[2].sources # << >>

\* C22 as stated: two calls whose staged directories differ never compute
\* the same module name.
FingerprintCompleteness ==
    \A j, k \in Sides :
        (/\ signature[j] # << >> /\ signature[k] # << >>
         /\ Staged(bundle[j]) # Staged(bundle[k])) =>
            signature[j] # signature[k]

\* The listed relative names that the destination directory held when
\* copy_files was called.
Collisions ==
    {n \in BaseNames :
        /\ copyArgs.found.has[n] # "absent"
        /\ \E i \in DOMAIN copyArgs.files : copyArgs.files[i] = <<n>>}

\* Every listed file is a relative name of a file in the source directory.
AllCopyable ==
    \A i \in DOMAIN copyArgs.files :
        copyArgs.files[i] \in RelNames /\ copyArgs.files[i][1] \in copyArgs.present

\* C30 as stated: when the destination directory already holds a file
\* with the relative name of a listed file, copy_files warns, replaces the
\* file with the source file's content and does not fail.
CollisionsWarned ==
    (/\ copyOut.done /\ copyArgs.source # copyArgs.dest
     /\ AllCopyable /\ Collisions # {}) =>
        /\ copyOut.warned
        /\ copyOut.outcome = "ok"
        /\ \A n \in Collisions : destDir.has[n] = "new"

\* The positions of the listed entries that are absolute paths.
AbsoluteEntries == {i \in DOMAIN copyArgs.files : Len(copyArgs.files[i]) > 1}

\* C31 as stated: when a listed entry is an absolute path, the copy step
\* raises the input error, so that nothing after it in build_module runs.
AbsolutePathsRejected ==
    (copyOut.done /\ AbsoluteEntries # {}) => copyOut.outcome = "InputError"

NoStagedPathAfterError ==
    \A p \in Procs :
        (pc[p] = "done" /\ result[p].kind = "error") => ~tmp[p][Name(p)].ex

\* C34 as stated: a call copies into the cache root only after its own
\* toolchain run exited with status zero.
PublishedOnlyAfterSuccess ==
    \A p \in Procs :
        (pc[p] = "copying" \/ promo[p] = "copied") => ran[p] /\ status[p] = "zero"

\* C35 as stated: under a fair scheduler every call of a racer that has
\* begun eventually returns a handle or raises.
EveryCallEnds ==
    \A p \in Procs : (pc[p] \notin {"idle", "done"}) ~> (pc[p] = "done")

====
